---- MODULE Spec2Model ----
(***************************************************************************)
(* A model of iharm/engine/AICT_trainer.py: the Trainer that drives the    *)
(* training and validation epochs of the image-harmonization network, its  *)
(* weighted loss aggregation, its checkpointing and its resume logic.      *)
(*                                                                         *)
(* Floating-point quantities are modelled as integers: a loss value and a  *)
(* weight are integers, a quality score (PSNR) is an integer number of     *)
(* 1/2048 units, so that the three-decimal formatting of the score in a    *)
(* checkpoint name is a real conversion.                                   *)
(***************************************************************************)
EXTENDS Integers, Sequences, FiniteSets, TLC

VARIABLES
    loss_cfg,              \* self.loss_cfg
    val_loss_cfg,          \* self.val_loss_cfg
    has_sched,             \* whether lr_scheduler was given to __init__
    multi_gpu,             \* cfg.multi_gpu
    world,                 \* the ranks of the processes of the run
    pc,                    \* per process: where its Trainer is
    epoch,                 \* per process: the epoch argument of the running call
    bi,                    \* per process: the batch index i of the running loop
    sw,                    \* per process: whether self.sw has been created
    net,                   \* per process: model parameters (version) and mode
    optim,                 \* per process: optimizer state (steps, zero_grads)
    lr_scheduler,          \* per process: scheduler position (-1: None)
    best_psnr,             \* per process: self.best_psnr
    best_checkpoint_path,  \* per process: self.best_checkpoint_path
    locals,                \* per process: local variables of the running call
    fwd,                   \* per process: what the last batch_forward returned
    train_calls,           \* per process: training calls started so far
    disk,                  \* the checkpoint files under CHECKPOINTS_PATH
    vis,                   \* the visualization files under VIS_PATH
    sink,                  \* the scalars written to the summary writer
    val_calls,             \* per process: validation calls started so far
    seen,                  \* the quality scores validation has read so far
    resume,                \* the state of construction with cfg.resume_exp
    run,                   \* the driver and the datasets of the run
    probe                  \* one add_loss call of the last batch_forward

vars == <<loss_cfg, val_loss_cfg, has_sched, multi_gpu, world, pc, epoch, bi, sw,
          net, optim, lr_scheduler, best_psnr, best_checkpoint_path, locals, fwd,
          train_calls, disk, vis, sink, val_calls, seen, resume, run, probe>>

----------------------------------------------------------------------------
(* Bounds *)

\* len(self.train_data) and len(self.val_data)
NumBatches == 2
\* epochs are 0..MaxEpoch
MaxEpoch == 1
\* training calls of a training-only run
MaxTrainCalls == 2
\* validation calls of a validation-only run
MaxValCalls == 3
\* processes of a multi-process run
NProc == 2

\* the batches a data loader can yield
Batches == {1, 2}
\* configured loss weights
Weights == {-1, 0, 1, 2}
\* quality scores a validation epoch can produce, in 1/2048 units
PsnrValues == {-1, 2, 3}

Epochs == 0 .. MaxEpoch
Procs == 0 .. (NProc - 1)

\* __init__ defaults
checkpoint_interval == 10
image_dump_interval == 100

----------------------------------------------------------------------------
(* Loss configuration and the weighted loss aggregator *)

\* the loss terms in the order batch_forward adds them
TermOrder == <<"pixel_loss", "low_loss", "contrastive_loss",
               "color_dis_loss", "coord_dis_loss", "sparse_loss">>
Terms == {TermOrder[k] : k \in 1 .. Len(TermOrder)}

TermIndex(name) == CHOOSE k \in 1 .. Len(TermOrder) : TermOrder[k] = name

\* torch.mean(loss_criterion(...)).item(): a deterministic function of the
\* term and the batch
Criterion(name, b) == ((TermIndex(name) * b) % 3) + 1

\* A loss configuration: the terms that have a callable (has), the terms
\* that have a <name>_weight key (wkeys), and the weights (0 where no key).
CfgGet(cfg, name) == IF name \in cfg.wkeys THEN cfg.w[name] ELSE 0

EmptyLog == [n \in {} |-> <<>>]

LogAppend(log, name, v) ==
    IF name \in DOMAIN log
    THEN [log EXCEPT ![name] = Append(@, v)]
    ELSE [n \in (DOMAIN log) \cup {name} |-> IF n = name THEN <<v>> ELSE log[n]]

\* add_loss without the test of line 326: a faulty variant
add_loss_NoWeightGuard(loss_name, st, validation, b) ==
    LET cfg == IF ~validation THEN loss_cfg ELSE val_loss_cfg IN
    IF loss_name \notin cfg.has
    THEN st
    ELSE LET loss_weight == CfgGet(cfg, loss_name)
             loss == Criterion(loss_name, b)
         IN  [total_loss |-> st.total_loss + loss_weight * loss,
              losses_logging |-> LogAppend(st.losses_logging, loss_name, loss),
              invoked |-> Append(st.invoked, loss_name),
              tensor |-> TRUE]

\* add_loss without the weight of line 332: a faulty variant
add_loss_Unweighted(loss_name, st, validation, b) ==
    LET cfg == IF ~validation THEN loss_cfg ELSE val_loss_cfg IN
    IF loss_name \notin cfg.has
    THEN st
    ELSE LET loss_weight == CfgGet(cfg, loss_name) IN
         IF loss_weight > 0
         THEN LET loss == Criterion(loss_name, b) IN
              [total_loss |-> st.total_loss + loss,
               losses_logging |-> LogAppend(st.losses_logging, loss_name, loss),
               invoked |-> Append(st.invoked, loss_name),
               tensor |-> TRUE]
         ELSE st

\* Trainer.add_loss: st carries total_loss, losses_logging, the criterion
\* invocations so far, and whether total_loss is a tensor yet
add_loss(loss_name, st, validation, b) ==
    LET cfg == IF ~validation THEN loss_cfg ELSE val_loss_cfg IN
    IF loss_name \notin cfg.has
    THEN st
    ELSE LET loss_weight == CfgGet(cfg, loss_name) IN
         IF loss_weight > 0
         THEN LET loss == Criterion(loss_name, b) IN
              [total_loss |-> st.total_loss + loss_weight * loss,
               losses_logging |-> LogAppend(st.losses_logging, loss_name, loss),
               invoked |-> Append(st.invoked, loss_name),
               tensor |-> TRUE]
         ELSE st

\* loss = 0.0; losses_logging = defaultdict(list)
LossStart == [total_loss |-> 0, losses_logging |-> EmptyLog,
              invoked |-> <<>>, tensor |-> FALSE]

\* lines 296-302: the running loss after the first k of the six add_loss
\* calls; the contrastive term is skipped when validation
RECURSIVE LossesThrough(_, _, _)
LossesThrough(k, validation, b) ==
    IF k = 0 THEN LossStart
    ELSE IF TermOrder[k] = "contrastive_loss" /\ validation
    THEN LossesThrough(k - 1, validation, b)
    ELSE add_loss(TermOrder[k], LossesThrough(k - 1, validation, b), validation, b)

\* the loss part of Trainer.batch_forward
batch_forward(b, validation) ==
    LET l6 == LossesThrough(Len(TermOrder), validation, b)
    IN  [loss |-> l6.total_loss, losses_logging |-> l6.losses_logging,
         invoked |-> l6.invoked, tensor |-> l6.tensor,
         batch |-> b, validation |-> validation, called |-> TRUE]

NoForward == [loss |-> 0, losses_logging |-> EmptyLog, invoked |-> <<>>,
              tensor |-> FALSE, batch |-> 0, validation |-> FALSE,
              called |-> FALSE]

----------------------------------------------------------------------------
(* Checkpoints, the summary writer, visualization files *)

\* f'{best_psnr:.3f}': a score of x/2048 rendered to three decimals, as the
\* number of thousandths, round-half-even on the exact binary value
Fmt3(x) ==
    LET n == 125 * x
        q == n \div 256
        r == n % 256
    IN  IF 2 * r > 256 \/ (2 * r = 256 /\ q % 2 = 1) THEN q + 1 ELSE q

\* self.best_checkpoint_path = ''
NoPath == [prefix |-> <<>>, epoch |-> -1]

\* the file name save_checkpoint builds from the prefix and the epoch
CheckpointPath(prefix, e) == [prefix |-> prefix, epoch |-> e]

\* os.path.exists(path)
Exists(d, path) == \E f \in d : f.path = path

\* the bundle save_checkpoint serializes: model, optimizer, lr_scheduler, epoch
Bundle(p, e) == [model |-> net[p].params, optimizer |-> optim[p],
                 lr_scheduler |-> lr_scheduler[p], epoch |-> e]

\* save_checkpoint(net, optim, lr_scheduler, CHECKPOINTS_PATH, prefix, epoch):
\* the disk after the save; a file of the same name is overwritten
save_checkpoint(d, p, prefix, e, by) ==
    {f \in d : f.path # CheckpointPath(prefix, e)}
        \cup {[path |-> CheckpointPath(prefix, e), bundle |-> Bundle(p, e),
               by |-> by, writer |-> p]}

\* os.remove(path)
Remove(d, path) == {f \in d : f.path # path}

\* self.sw.add_scalar for a set of entries: the last write of a tag stands
AddScalars(s, entries) ==
    {x \in s : \A n \in entries : n.tag # x.tag} \cup entries

Scalar(tag, num, den, step, p) ==
    [tag |-> tag, num |-> num, den |-> den, step |-> step, writer |-> p]

RECURSIVE SeqSum(_)
SeqSum(s) == IF s = <<>> THEN 0 ELSE s[1] + SeqSum(Tail(s))

\* self.local_rank: 0 unless cfg.multi_gpu, then the process's rank
local_rank(p) == IF multi_gpu THEN p ELSE 0

\* the test of line 125 as local_rank <= 1: a faulty variant
IsPrimary_Rank1Too(p) == local_rank(p) <= 1

\* the test `self.local_rank == 0`
IsPrimary(p) == local_rank(p) = 0

\* the value logged as learning rate: self.lr, or the scheduler's last lr
LearningRate(p) == IF lr_scheduler[p] = -1 THEN 0 ELSE lr_scheduler[p]

\* the local variables of a call, before it starts and after it returns
NoLocals == [train_loss |-> 0, sums |-> [n \in Terms |-> 0], global_step |-> -1,
             batch_loss |-> 0, val_loss |-> 0, num_batches |-> 0,
             losses_logging |-> EmptyLog]

\* a batch that steps the optimizer whatever the mode: a faulty variant
StepsAfterBatch_AnyMode(n, validation) == n + 1

\* the optimizer steps (and parameter updates) after one batch: training
\* runs zero_grad, backward and step (lines 155-157), validation none
StepsAfterBatch(n, validation) == IF validation THEN n ELSE n + 1

NoProbe == [called |-> FALSE, name |-> "", before |-> LossStart,
            after |-> LossStart]

Idle(p) == pc[p] \in {"idle", "trained", "validated"}

----------------------------------------------------------------------------
(* Trainer.training *)

\* line 150 without the epoch term: a faulty variant
GlobalStep_BatchIndexOnly(e, i) == i

\* line 150: global_step = epoch * len(self.train_data) + i
GlobalStep(e, i) == e * NumBatches + i

\* the epochs the driver may pass to the next training call: any epoch of
\* the run, or, when the driver trains epoch after epoch, the one after the
\* epoch of the call before
NextEpochs(p) ==
    IF run.successive /\ train_calls[p] > 0 THEN {epoch[p] + 1} ELSE run.epochs

\* lines 124-148: the sink is created by the primary process, the running
\* sums are zeroed, the network is put in training mode
StartTraining(p) ==
    /\ Idle(p)
    /\ resume.status = "done"
    /\ train_calls[p] < run.train_calls
    /\ \E e \in NextEpochs(p) : epoch' = [epoch EXCEPT ![p] = e]
    /\ sw' = [sw EXCEPT ![p] = @ \/ IsPrimary(p)]
    /\ locals' = [locals EXCEPT ![p] = NoLocals]
    /\ fwd' = [fwd EXCEPT ![p] = NoForward]
    /\ net' = [net EXCEPT ![p].mode = "train"]
    /\ bi' = [bi EXCEPT ![p] = 0]
    /\ pc' = [pc EXCEPT ![p] = "train"]
    /\ train_calls' = [train_calls EXCEPT ![p] = @ + 1]
    /\ UNCHANGED <<loss_cfg, val_loss_cfg, has_sched, multi_gpu, world, optim,
                   lr_scheduler, best_psnr, best_checkpoint_path, val_calls,
                   disk, vis, sink, seen, resume, run, probe>>

\* the terms whose weight in loss_cfg is positive: lines 161-172 read
\* losses_logging.get(name)[-1] for each of them
Weighted == {n \in Terms : CfgGet(loss_cfg, n) > 0}

SumsAfter(p, r) ==
    [n \in Terms |->
        IF n \in Weighted
        THEN locals[p].sums[n] + r.losses_logging[n][Len(r.losses_logging[n])]
        ELSE locals[p].sums[n]]

\* lines 177-183: the per-batch scalars
BatchScalars(p, r, step) ==
    {Scalar(<<"TrainLosses", n>>, r.losses_logging[n][Len(r.losses_logging[n])],
            1, step, p) : n \in DOMAIN r.losses_logging}
        \cup {Scalar(<<"TrainLosses", "overall">>, r.loss, 1, step, p)}

\* one iteration of the loop of lines 149-186 that raises: loss is the
\* float 0.0 (no term enabled) and has no backward(), or a weighted term
\* has no entry in losses_logging
TrainBatchFails(p) ==
    /\ pc[p] = "train"
    /\ bi[p] < NumBatches
    /\ \E b \in run.batches :
         LET r == batch_forward(b, FALSE) IN
         /\ ~r.tensor \/ ~(Weighted \subseteq DOMAIN r.losses_logging)
         /\ fwd' = [fwd EXCEPT ![p] = r]
         /\ optim' = [optim EXCEPT ![p] = IF r.tensor
                                           THEN StepsAfterBatch(@, FALSE) ELSE @]
         /\ net' = [net EXCEPT ![p].params = IF r.tensor
                                              THEN StepsAfterBatch(@, FALSE) ELSE @]
    /\ pc' = [pc EXCEPT ![p] = "failed"]
    /\ locals' = [locals EXCEPT ![p] = NoLocals]
    /\ UNCHANGED <<loss_cfg, val_loss_cfg, has_sched, multi_gpu, world, epoch, bi,
                   sw, lr_scheduler, best_psnr, best_checkpoint_path, train_calls, val_calls,
                   disk, vis, sink, seen, resume, run, probe>>

\* one iteration of the loop of lines 149-186
TrainBatch(p) ==
    /\ pc[p] = "train"
    /\ bi[p] < NumBatches
    /\ \E b \in run.batches :
         LET r == batch_forward(b, FALSE)
             global_step == GlobalStep(epoch[p], bi[p])
         IN
         /\ r.tensor
         /\ Weighted \subseteq DOMAIN r.losses_logging
         /\ fwd' = [fwd EXCEPT ![p] = r]
         /\ optim' = [optim EXCEPT ![p] = StepsAfterBatch(@, FALSE)]
         /\ net' = [net EXCEPT ![p].params = StepsAfterBatch(@, FALSE)]
         /\ locals' = [locals EXCEPT ![p].train_loss = @ + r.loss,
                                     ![p].sums = SumsAfter(p, r),
                                     ![p].global_step = global_step,
                                     ![p].batch_loss = r.loss]
         /\ IF IsPrimary(p)
            THEN /\ sink' = AddScalars(sink, BatchScalars(p, r, global_step))
                 /\ vis' = IF image_dump_interval > 0
                              /\ global_step % image_dump_interval = 0
                           THEN vis \cup {[step |-> global_step,
                                           prefix |-> "train", writer |-> p]}
                           ELSE vis
            ELSE UNCHANGED <<sink, vis>>
    /\ bi' = [bi EXCEPT ![p] = @ + 1]
    /\ UNCHANGED <<loss_cfg, val_loss_cfg, has_sched, multi_gpu, world, pc, epoch,
                   sw, lr_scheduler, best_psnr, best_checkpoint_path, train_calls, val_calls,
                   disk, seen, resume, run, probe>>

\* lines 191-205: the scalars written after the loop; losses_logging and
\* batch_loss are those of the last iteration
EpochScalars(p) ==
    LET log == fwd[p].losses_logging
        step == locals[p].global_step
    IN  {Scalar(<<"TrainLosses", n>>, SeqSum(log[n]), Len(log[n]), step, p)
            : n \in DOMAIN log}
        \cup {Scalar(<<"TrainLosses", "overall">>, locals[p].batch_loss, 1, step, p),
              Scalar(<<"TrainStates", "learning_rate">>, LearningRate(p), 1, step, p)}

\* line 214 testing (epoch + 1) % checkpoint_interval: a faulty variant
TrainCheckpoints_OffByOne(d, p) ==
    LET e == epoch[p]
        d1 == save_checkpoint(d, p, <<>>, e, "latest")
    IN  IF (e + 1) % checkpoint_interval = 0
        THEN save_checkpoint(d1, p, <<e>>, e, "periodic")
        ELSE d1

\* lines 212-216: the latest checkpoint with the task prefix (''), and the
\* periodic one with prefix f'{epoch:03d}'
TrainCheckpoints(d, p) ==
    LET e == epoch[p]
        d1 == save_checkpoint(d, p, <<>>, e, "latest")
    IN  IF e % checkpoint_interval = 0
        THEN save_checkpoint(d1, p, <<e>>, e, "periodic")
        ELSE d1

\* lines 188-219: after the loop
TrainEnd(p) ==
    /\ pc[p] = "train"
    /\ bi[p] = NumBatches
    /\ IF IsPrimary(p)
       THEN /\ sink' = AddScalars(sink, EpochScalars(p))
            /\ disk' = TrainCheckpoints(disk, p)
       ELSE UNCHANGED <<sink, disk>>
    /\ lr_scheduler' = [lr_scheduler EXCEPT ![p] = IF @ = -1 THEN @ ELSE @ + 1]
    /\ pc' = [pc EXCEPT ![p] = "trained"]
    /\ locals' = [locals EXCEPT ![p] = NoLocals]
    /\ UNCHANGED <<loss_cfg, val_loss_cfg, has_sched, multi_gpu, world, epoch, bi,
                   sw, net, optim, best_psnr, best_checkpoint_path, fwd,
                   train_calls, val_calls, vis, seen, resume, run, probe>>

----------------------------------------------------------------------------
(* Trainer.validation *)

\* lines 223-241: the sink is created by the primary process, the
\* accumulators are zeroed, the network is put in evaluation mode
StartValidation(p) ==
    /\ Idle(p)
    /\ resume.status = "done"
    /\ val_calls[p] < run.val_calls
    /\ \E e \in run.epochs : epoch' = [epoch EXCEPT ![p] = e]
    /\ val_calls' = [val_calls EXCEPT ![p] = @ + 1]
    /\ sw' = [sw EXCEPT ![p] = @ \/ IsPrimary(p)]
    /\ locals' = [locals EXCEPT ![p] = NoLocals]
    /\ fwd' = [fwd EXCEPT ![p] = NoForward]
    /\ net' = [net EXCEPT ![p].mode = "eval"]
    /\ bi' = [bi EXCEPT ![p] = 0]
    /\ pc' = [pc EXCEPT ![p] = "val"]
    /\ UNCHANGED <<loss_cfg, val_loss_cfg, has_sched, multi_gpu, world, optim,
                   lr_scheduler, best_psnr, best_checkpoint_path, train_calls,
                   disk, vis, sink, seen, resume, run, probe>>

\* losses_logging[loss_name].extend(loss_values) for every logged term
Extend(log, more) ==
    [n \in (DOMAIN log) \cup (DOMAIN more) |->
        (IF n \in DOMAIN log THEN log[n] ELSE <<>>)
            \o (IF n \in DOMAIN more THEN more[n] ELSE <<>>)]

\* one iteration of the loop of lines 242-256; loss.item() raises when no
\* term is enabled and loss is still the float 0.0
ValBatch(p) ==
    /\ pc[p] = "val"
    /\ bi[p] < NumBatches
    /\ \E b \in run.batches :
         LET r == batch_forward(b, TRUE) IN
         /\ fwd' = [fwd EXCEPT ![p] = r]
         /\ IF r.tensor
            THEN /\ locals' = [locals EXCEPT
                       ![p].losses_logging = Extend(@, r.losses_logging),
                       ![p].batch_loss = r.loss,
                       ![p].val_loss = @ + r.loss,
                       ![p].num_batches = @ + 1,
                       ![p].global_step = epoch[p] * NumBatches + bi[p]]
                 /\ bi' = [bi EXCEPT ![p] = @ + 1]
                 /\ pc' = pc
            ELSE /\ locals' = [locals EXCEPT ![p] = NoLocals]
                 /\ bi' = bi
                 /\ pc' = [pc EXCEPT ![p] = "failed"]
    /\ optim' = [optim EXCEPT ![p] = StepsAfterBatch(@, TRUE)]
    /\ net' = [net EXCEPT ![p].params = StepsAfterBatch(@, TRUE)]
    /\ UNCHANGED <<loss_cfg, val_loss_cfg, has_sched, multi_gpu, world, epoch,
                   sw, lr_scheduler, best_psnr, best_checkpoint_path,
                   train_calls, val_calls, disk, vis, sink, val_calls, seen, resume, run, probe>>

\* lines 261-270: the scalars of a validation epoch
ValScalars(p, psnr) ==
    LET log == locals[p].losses_logging
        e == epoch[p]
    IN  {Scalar(<<"ValLosses", n>>, SeqSum(log[n]), Len(log[n]), e, p)
            : n \in DOMAIN log}
        \cup {Scalar(<<"ValMetrics", "epoch_psnr">>, psnr, 1, e, p),
              Scalar(<<"ValLosses", "overall">>, locals[p].val_loss,
                     locals[p].num_batches, e, p)}

\* the test of line 273 as >=: a faulty variant
Promotes_OnEqual(psnr, best) == psnr >= best

\* line 273: psnr > self.best_psnr
Promotes(psnr, best) == psnr > best

\* os.remove(path): raises (ok is FALSE) when the file does not exist
os_remove(d, path) ==
    IF Exists(d, path) THEN [ok |-> TRUE, disk |-> Remove(d, path)]
    ELSE [ok |-> FALSE, disk |-> d]

\* line 275 testing that a path is recorded, not that the file exists: a faulty variant
RemoveOld_IfRecorded(d, path) ==
    IF path # NoPath THEN os_remove(d, path) ELSE [ok |-> TRUE, disk |-> d]

\* lines 275-276 left out: a faulty variant
RemoveOld_Never(d, path) == [ok |-> TRUE, disk |-> d]

\* lines 275-276: the previous best file is removed if it exists
RemoveOld(d, path) ==
    IF Exists(d, path) THEN os_remove(d, path) ELSE [ok |-> TRUE, disk |-> d]

\* what has been observed of the run once validation has read psnr: the
\* largest score read, and whether a promotion found the file that
\* best_checkpoint_path names already gone
Observe(p, psnr) ==
    [any |-> TRUE,
     max |-> IF seen.any /\ seen.max >= psnr THEN seen.max ELSE psnr,
     lost |-> \/ seen.lost
              \/ /\ Promotes(psnr, best_psnr[p])
                 /\ best_checkpoint_path[p] # NoPath
                 /\ ~Exists(disk, best_checkpoint_path[p])]

\* lines 258-279: after the loop; psnr is val_metrics[0].get_epoch_value()
ValEnd(p) ==
    /\ pc[p] = "val"
    /\ bi[p] = NumBatches
    /\ IF IsPrimary(p)
       THEN \E psnr \in PsnrValues :
              /\ sink' = AddScalars(sink, ValScalars(p, psnr))
              /\ seen' = Observe(p, psnr)
              /\ IF Promotes(psnr, best_psnr[p])
                 THEN LET rm == RemoveOld(disk, best_checkpoint_path[p])
                          prefix == <<epoch[p], Fmt3(psnr)>>
                      IN  /\ best_psnr' = [best_psnr EXCEPT ![p] = psnr]
                          /\ IF rm.ok
                             THEN /\ disk' = save_checkpoint(rm.disk, p, prefix,
                                                             epoch[p], "best")
                                  /\ best_checkpoint_path' =
                                       [best_checkpoint_path EXCEPT
                                          ![p] = CheckpointPath(prefix, epoch[p])]
                                  /\ pc' = [pc EXCEPT ![p] = "validated"]
                             ELSE /\ disk' = rm.disk
                                  /\ best_checkpoint_path' = best_checkpoint_path
                                  /\ pc' = [pc EXCEPT ![p] = "failed"]
                 ELSE /\ UNCHANGED <<best_psnr, best_checkpoint_path, disk>>
                      /\ pc' = [pc EXCEPT ![p] = "validated"]
       ELSE /\ UNCHANGED <<sink, seen, best_psnr, best_checkpoint_path, disk>>
            /\ pc' = [pc EXCEPT ![p] = "validated"]
    /\ locals' = [locals EXCEPT ![p] = NoLocals]
    /\ UNCHANGED <<loss_cfg, val_loss_cfg, has_sched, multi_gpu, world, epoch, bi,
                   sw, net, optim, lr_scheduler, fwd, train_calls, val_calls, vis, resume, run, probe>>

\* the environment: the file best_checkpoint_path names is removed from
\* the checkpoint directory by someone else
ExternalRemove ==
    /\ \E p \in world :
         /\ Exists(disk, best_checkpoint_path[p])
         /\ disk' = Remove(disk, best_checkpoint_path[p])
    /\ UNCHANGED <<loss_cfg, val_loss_cfg, has_sched, multi_gpu, world, pc, epoch,
                   bi, sw, net, optim, lr_scheduler, best_psnr,
                   best_checkpoint_path, locals, fwd, train_calls, val_calls, vis, sink,
                   seen, resume, run, probe>>

----------------------------------------------------------------------------
(* Trainer.__init__ and Trainer._load_weights *)

Keys == {"optimizer", "lr_scheduler", "epoch"}

\* the bundles a checkpoint found by the glob of line 408 can hold
Checkpoints ==
    {[keys |-> ks, model |-> 5,
      optimizer |-> IF "optimizer" \in ks THEN 3 ELSE 0,
      lr_scheduler |-> IF "lr_scheduler" \in ks THEN 4 ELSE 0,
      epoch |-> IF "epoch" \in ks THEN e ELSE 0]
        : ks \in SUBSET Keys, e \in {1, 2}}

NoCheckpoint == [keys |-> {}, model |-> 0, optimizer |-> 0, lr_scheduler |-> 0,
                 epoch |-> 0]

\* line 419
HasTrainingState(checkpoint) ==
    /\ "optimizer" \in checkpoint.keys
    /\ "lr_scheduler" \in checkpoint.keys
    /\ "epoch" \in checkpoint.keys

\* lines 99-121 and 396-423 for the process of rank 0: the scheduler is
\* built and stepped cfg.start_epoch times, then the weights are loaded
Construct ==
    /\ resume.status = "new"
    /\ LET sched0 == IF has_sched THEN resume.start_epoch ELSE -1
           weights_ok == resume.weights # "missing"
           params1 == IF resume.weights = "file" THEN 9 ELSE net[0].params
           ck == resume.checkpoint
       IN
       IF ~weights_ok
       THEN \* line 405: RuntimeError
            /\ lr_scheduler' = [lr_scheduler EXCEPT ![0] = sched0]
            /\ resume' = [resume EXCEPT !.status = "failed"]
            /\ UNCHANGED <<net, optim>>
       ELSE IF ~resume.resume_exp
       THEN /\ lr_scheduler' = [lr_scheduler EXCEPT ![0] = sched0]
            /\ net' = [net EXCEPT ![0].params = params1]
            /\ resume' = [resume EXCEPT !.status = "done", !.weights = "none"]
            /\ UNCHANGED optim
       ELSE IF resume.nfound # 1
       THEN \* line 409: the assertion fails
            /\ lr_scheduler' = [lr_scheduler EXCEPT ![0] = sched0]
            /\ net' = [net EXCEPT ![0].params = params1]
            /\ resume' = [resume EXCEPT !.status = "failed", !.weights = "none"]
            /\ UNCHANGED optim
       ELSE IF ~HasTrainingState(ck)
       THEN /\ lr_scheduler' = [lr_scheduler EXCEPT ![0] = sched0]
            /\ net' = [net EXCEPT ![0].params = ck.model]
            /\ resume' = [resume EXCEPT !.status = "done", !.weights = "none",
                                        !.model_loaded = TRUE]
            /\ UNCHANGED optim
       ELSE IF ~has_sched
       THEN \* line 421: self.lr_scheduler is None and has no load_state_dict
            /\ lr_scheduler' = [lr_scheduler EXCEPT ![0] = sched0]
            /\ net' = [net EXCEPT ![0].params = ck.model]
            /\ optim' = [optim EXCEPT ![0] = ck.optimizer]
            /\ resume' = [resume EXCEPT !.status = "failed", !.weights = "none",
                                        !.model_loaded = TRUE]
       ELSE /\ lr_scheduler' = [lr_scheduler EXCEPT ![0] = ck.lr_scheduler]
            /\ net' = [net EXCEPT ![0].params = ck.model]
            /\ optim' = [optim EXCEPT ![0] = ck.optimizer]
            /\ resume' = [resume EXCEPT !.status = "done", !.weights = "none",
                                        !.model_loaded = TRUE,
                                        !.start_epoch = ck.epoch + 1]
    /\ UNCHANGED <<loss_cfg, val_loss_cfg, has_sched, multi_gpu, world, pc, epoch,
                   bi, sw, best_psnr, best_checkpoint_path, locals, fwd,
                   train_calls, val_calls, disk, vis, sink, seen, run, probe>>

----------------------------------------------------------------------------
(* Specifications *)

\* a loss configuration from its present terms, weight keys and weights
Cfg(has, wkeys, w) ==
    [has |-> has, wkeys |-> wkeys, w |-> [n \in Terms |-> IF n \in wkeys THEN w[n] ELSE 0]]

\* the state of a constructed Trainer, resume aside
TrainerInit ==
    /\ val_loss_cfg = loss_cfg
    /\ pc = [p \in Procs |-> "idle"]
    /\ epoch = [p \in Procs |-> 0]
    /\ bi = [p \in Procs |-> 0]
    /\ sw = [p \in Procs |-> FALSE]
    /\ net = [p \in Procs |-> [params |-> 0, mode |-> "train"]]
    /\ optim = [p \in Procs |-> 0]
    /\ best_psnr = [p \in Procs |-> 0]
    /\ best_checkpoint_path = [p \in Procs |-> NoPath]
    /\ locals = [p \in Procs |-> NoLocals]
    /\ fwd = [p \in Procs |-> NoForward]
    /\ train_calls = [p \in Procs |-> 0]
    /\ disk = {}
    /\ vis = {}
    /\ sink = {}
    /\ val_calls = [p \in Procs |-> 0]
    /\ seen = [any |-> FALSE, max |-> 0, lost |-> FALSE]
    /\ probe = NoProbe

Constructed == [status |-> "done", weights |-> "none", resume_exp |-> FALSE,
                nfound |-> 0, checkpoint |-> NoCheckpoint, start_epoch |-> 0,
                start_epoch0 |-> 0, model_loaded |-> FALSE]

\* the configurations of SpecTrain and SpecVal
AllOn == Cfg(Terms, Terms, [n \in Terms |-> IF n = "low_loss" THEN 2 ELSE 1])
AllOff == Cfg({"pixel_loss"}, {"pixel_loss"}, [n \in Terms |-> 0])
NoCallable == Cfg({"pixel_loss"}, {"pixel_loss", "low_loss"}, [n \in Terms |-> 1])

\* training(epoch) alone, single process (cfg.multi_gpu is False)
InitTrain ==
    /\ loss_cfg \in {AllOn, AllOff, NoCallable}
    /\ has_sched \in BOOLEAN
    /\ multi_gpu = FALSE
    /\ world = {0}
    /\ lr_scheduler = [p \in Procs |-> IF has_sched THEN 0 ELSE -1]
    /\ resume = Constructed
    /\ run = [successive |-> FALSE, train_calls |-> MaxTrainCalls, val_calls |-> 0,
              epochs |-> Epochs, batches |-> Batches]
    /\ TrainerInit

NextTrain ==
    \/ \E p \in world : StartTraining(p)
    \/ \E p \in world : TrainBatch(p)
    \/ \E p \in world : TrainBatchFails(p)
    \/ \E p \in world : TrainEnd(p)

SpecTrain == InitTrain /\ [][NextTrain]_vars

\* training(e), training(e + 1), ... from any start epoch, single process
InitSeq ==
    /\ loss_cfg \in {AllOn, NoCallable}
    /\ has_sched \in BOOLEAN
    /\ multi_gpu = FALSE
    /\ world = {0}
    /\ lr_scheduler = [p \in Procs |-> IF has_sched THEN 0 ELSE -1]
    /\ resume = Constructed
    /\ run = [successive |-> TRUE, train_calls |-> MaxTrainCalls + 1,
              val_calls |-> 0, epochs |-> Epochs, batches |-> Batches]
    /\ TrainerInit

NextSeq ==
    \/ \E p \in world : StartTraining(p)
    \/ \E p \in world : TrainBatch(p)
    \/ \E p \in world : TrainBatchFails(p)
    \/ \E p \in world : TrainEnd(p)

SpecSeq == InitSeq /\ [][NextSeq]_vars

\* validation(epoch) alone, single process
InitVal ==
    /\ loss_cfg \in {AllOn, AllOff}
    /\ has_sched = TRUE
    /\ multi_gpu = FALSE
    /\ world = {0}
    /\ lr_scheduler = [p \in Procs |-> 0]
    /\ resume = Constructed
    /\ run = [successive |-> FALSE, train_calls |-> 0, val_calls |-> MaxValCalls,
              epochs |-> Epochs, batches |-> Batches]
    /\ TrainerInit

NextVal ==
    \/ \E p \in world : StartValidation(p)
    \/ \E p \in world : ValBatch(p)
    \/ \E p \in world : ValEnd(p)
    \/ ExternalRemove

SpecVal == InitVal /\ [][NextVal]_vars

\* batch_forward called directly, on any batch in either mode
ForwardCall ==
    /\ \E b \in run.batches, validation \in BOOLEAN :
         fwd' = [fwd EXCEPT ![0] = batch_forward(b, validation)]
    /\ probe' = NoProbe
    /\ UNCHANGED <<loss_cfg, val_loss_cfg, has_sched, multi_gpu, world, pc, epoch,
                   bi, sw, net, optim, lr_scheduler, best_psnr,
                   best_checkpoint_path, locals, train_calls, val_calls, disk,
                   vis, sink, seen, resume, run>>

\* one of the add_loss calls the last batch_forward made, with the running
\* loss it was given and the one it returned
AddLossCall ==
    /\ fwd[0].called
    /\ \E k \in 1 .. Len(TermOrder) :
         /\ ~(TermOrder[k] = "contrastive_loss" /\ fwd[0].validation)
         /\ LET before == LossesThrough(k - 1, fwd[0].validation, fwd[0].batch)
            IN  probe' = [called |-> TRUE, name |-> TermOrder[k],
                          before |-> before,
                          after |-> add_loss(TermOrder[k], before,
                                             fwd[0].validation, fwd[0].batch)]
    /\ UNCHANGED <<loss_cfg, val_loss_cfg, has_sched, multi_gpu, world, pc, epoch,
                   bi, sw, net, optim, lr_scheduler, best_psnr,
                   best_checkpoint_path, locals, fwd, train_calls, val_calls,
                   disk, vis, sink, seen, resume, run>>

\* the terms configured in every way: callable present or not, weight key
\* missing or any weight
VariedTerms == {"pixel_loss", "contrastive_loss"}

\* the loss configurations of SpecLoss: a varied term is configured in
\* every way, another term is absent or enabled with weight 2
LossCfgs ==
    {Cfg(hv \cup on, wv \cup on,
         [n \in Terms |-> IF n \in VariedTerms THEN w[n] ELSE 2]) :
        hv \in SUBSET VariedTerms, wv \in SUBSET VariedTerms,
        on \in SUBSET (Terms \ VariedTerms), w \in [VariedTerms -> Weights]}

InitLoss ==
    /\ loss_cfg \in LossCfgs
    /\ has_sched = TRUE
    /\ multi_gpu = FALSE
    /\ world = {0}
    /\ lr_scheduler = [p \in Procs |-> 0]
    /\ resume = Constructed
    /\ run = [successive |-> FALSE, train_calls |-> 0, val_calls |-> 0, epochs |-> {}, batches |-> Batches]
    /\ TrainerInit

NextLoss == ForwardCall \/ AddLossCall

SpecLoss == InitLoss /\ [][NextLoss]_vars

\* what construction can be given: cfg.weights, cfg.resume_exp, the files
\* the glob finds, the checkpoint it loads, cfg.start_epoch
Resumes ==
    {[status |-> "new", weights |-> wt, resume_exp |-> re,
      nfound |-> IF re THEN nf ELSE 0,
      checkpoint |-> IF re /\ nf = 1 THEN ck ELSE NoCheckpoint,
      start_epoch |-> se, start_epoch0 |-> se, model_loaded |-> FALSE] :
        wt \in {"none", "file", "missing"}, re \in BOOLEAN, nf \in {0, 1, 2},
        ck \in Checkpoints, se \in {0, 1, 2}}

\* Trainer(...) being constructed
InitResume ==
    /\ loss_cfg = AllOn
    /\ has_sched \in BOOLEAN
    /\ multi_gpu = FALSE
    /\ world = {0}
    /\ lr_scheduler = [p \in Procs |-> -1]
    /\ resume \in Resumes
    /\ run = [successive |-> FALSE, train_calls |-> 0, val_calls |-> 0, epochs |-> {}, batches |-> {}]
    /\ TrainerInit

NextResume == Construct

SpecResume == InitResume /\ [][NextResume]_vars

\* a multi-process run (cfg.multi_gpu is True): every process trains and
\* validates once, in either order
Init ==
    /\ loss_cfg \in {AllOn, NoCallable}
    /\ has_sched = TRUE
    /\ multi_gpu = TRUE
    /\ world = Procs
    /\ lr_scheduler = [p \in Procs |-> 0]
    /\ resume = Constructed
    /\ run = [successive |-> FALSE, train_calls |-> 1, val_calls |-> 1, epochs |-> {0},
              batches |-> {1}]
    /\ TrainerInit

Next ==
    \/ \E p \in world : StartTraining(p)
    \/ \E p \in world : TrainBatch(p)
    \/ \E p \in world : TrainBatchFails(p)
    \/ \E p \in world : TrainEnd(p)
    \/ \E p \in world : StartValidation(p)
    \/ \E p \in world : ValBatch(p)
    \/ \E p \in world : ValEnd(p)

Spec == Init /\ [][Next]_vars

----------------------------------------------------------------------------
(* Properties *)

\* the files on disk that the best-checkpoint branch (lines 277-279) saved
BestFiles == {f \in disk : f.by = "best"}

\* C1: after any sequence of validation calls at most one file saved by the
\* best-checkpoint branch is on disk, and its score is the largest quality
\* score validation has read: best_psnr is that score and the name of the
\* file carries it, formatted to three decimals.
C1_BestCheckpoint ==
    /\ Cardinality(BestFiles) <= 1
    /\ \A f \in BestFiles :
         /\ seen.any
         /\ best_psnr[0] = seen.max
         /\ f.path = best_checkpoint_path[0]
         /\ f.path.prefix[2] = Fmt3(seen.max)

\* C1 witness: three validations have run, the largest score is 3 and its
\* file is the one on disk
C1_Witness ==
    /\ val_calls[0] = MaxValCalls
    /\ pc[0] = "validated"
    /\ seen.max = 3
    /\ Cardinality(BestFiles) = 1

\* the score the validation step that ends a call wrote to the sink
PsnrWritten(s) ==
    (CHOOSE x \in s : x.tag = <<"ValMetrics", "epoch_psnr">>).num

\* a step of process p that belongs to a validation call
ValidationStep(p) ==
    /\ pc[p] = "val" \/ pc'[p] = "val"
    /\ pc[p] # pc'[p] \/ bi[p] # bi'[p]

\* the step of process p that ends a validation call on the primary process
ValEndStep(p) ==
    /\ pc[p] = "val"
    /\ pc'[p] # "val"
    /\ bi[p] = NumBatches
    /\ IsPrimary(p)

\* C2: a validation call whose score does not exceed the best score so far
\* (a score equal to it included) leaves best_psnr, best_checkpoint_path and
\* the best-checkpoint files on disk as they were.
C2_NoPromotionFrame ==
    [][\A p \in world :
         ValidationStep(p)
         /\ ~(ValEndStep(p) /\ PsnrWritten(sink') > best_psnr[p])
         => /\ best_psnr'[p] = best_psnr[p]
            /\ best_checkpoint_path'[p] = best_checkpoint_path[p]
            /\ disk' = disk]_vars

\* C2 witness: a validation has ended with a score below the best one and
\* the best file is still on disk
C2_Witness ==
    /\ pc[0] = "validated"
    /\ \E x \in sink : x.tag = <<"ValMetrics", "epoch_psnr">>
                       /\ x.num < best_psnr[0]
    /\ Exists(disk, best_checkpoint_path[0])

\* the configuration add_loss reads in a mode
ModeCfg(validation) == IF ~validation THEN loss_cfg ELSE val_loss_cfg

\* a term whose weight is <= 0, whose weight key is missing, or that is
\* absent from the mode's configuration
Disabled(name, validation) ==
    \/ name \notin ModeCfg(validation).has
    \/ name \notin ModeCfg(validation).wkeys
    \/ ModeCfg(validation).w[name] <= 0

\* C3: for a term that is disabled in the mode's configuration add_loss
\* returns the running total it was given, invokes no loss callable and
\* appends nothing to the log.
C3_DisabledTermNoOp ==
    probe.called /\ Disabled(probe.name, fwd[0].validation)
        => /\ probe.after.total_loss = probe.before.total_loss
           /\ probe.after.invoked = probe.before.invoked
           /\ probe.after.losses_logging = probe.before.losses_logging
           /\ probe.name \notin DOMAIN probe.after.losses_logging

\* C3 witness: add_loss was called for a term that has a callable but a
\* weight <= 0, with a running total that is already positive
C3_Witness ==
    /\ probe.called
    /\ probe.name \in ModeCfg(fwd[0].validation).has
    /\ probe.name \in ModeCfg(fwd[0].validation).wkeys
    /\ Disabled(probe.name, fwd[0].validation)
    /\ probe.before.total_loss > 0

\* the terms batch_forward adds in a mode
EnabledTerms(validation) ==
    {n \in Terms : /\ ~Disabled(n, validation)
                   /\ (validation => n # "contrastive_loss")}

RECURSIVE WeightedLogSum(_, _, _)
WeightedLogSum(names, log, cfg) ==
    IF names = {} THEN 0
    ELSE LET n == CHOOSE x \in names : TRUE
         IN  cfg.w[n] * log[n][1] + WeightedLogSum(names \ {n}, log, cfg)

\* C4: the loss batch_forward returns is the sum over the terms enabled for
\* the mode of weight times the value logged for the term; each enabled
\* term has exactly one log entry and no other term has any (the
\* contrastive term has none in validation).
C4_LossIsWeightedSum ==
    fwd[0].called =>
        LET en == EnabledTerms(fwd[0].validation)
            log == fwd[0].losses_logging
        IN  /\ DOMAIN log = en
            /\ \A n \in en : Len(log[n]) = 1
            /\ fwd[0].loss = WeightedLogSum(en, log, ModeCfg(fwd[0].validation))

\* C4 witness: a validation batch with the contrastive term configured
\* with a positive weight and a term of weight 2 enabled
C4_Witness ==
    /\ fwd[0].called
    /\ fwd[0].validation
    /\ ~Disabled("contrastive_loss", TRUE)
    /\ Cardinality(EnabledTerms(TRUE)) >= 3
    /\ fwd[0].loss > 0

\* C5: no step of a validation call changes the model parameters, the
\* optimizer state or the scheduler position of its process; they change
\* only in training, where every batch makes exactly one optimizer step.
C5_ValidationKeepsTrainingState ==
    [][\A p \in world :
         /\ pc[p] = "val" \/ pc'[p] = "val"
              => /\ net'[p].params = net[p].params
                 /\ optim'[p] = optim[p]
                 /\ lr_scheduler'[p] = lr_scheduler[p]
         /\ optim'[p] # optim[p]
              => /\ pc[p] = "train"
                 /\ optim'[p] = optim[p] + 1
         /\ pc[p] = "train" /\ bi'[p] = bi[p] + 1
              => optim'[p] = optim[p] + 1]_vars

\* C5 witness: the primary process has trained an epoch and then validated
C5_Witness ==
    /\ pc[0] = "validated"
    /\ optim[0] = NumBatches
    /\ lr_scheduler[0] = 1

\* C6: a process whose local_rank is not 0 never creates the sink, never
\* writes a scalar, never saves or deletes a checkpoint and never writes a
\* visualization file.
C6_OnlyPrimarySideEffects ==
    /\ \A p \in world \ {0} :
         /\ ~sw[p]
         /\ best_psnr[p] = 0
         /\ best_checkpoint_path[p] = NoPath
    /\ \A x \in sink : x.writer = 0
    /\ \A f \in disk : f.writer = 0
    /\ \A v \in vis : v.writer = 0

\* C6 witness: the process of rank 1 has trained and validated while the
\* primary process has written files
C6_Witness ==
    /\ multi_gpu
    /\ pc[1] \in {"trained", "validated"}
    /\ train_calls[1] = 1
    /\ val_calls[1] = 1
    /\ optim[1] = NumBatches
    /\ disk # {}
    /\ vis # {}

\* C7: resuming restores optimizer, scheduler and start epoch as one group:
\* all three when the bundle holds all three keys, none otherwise, whether
\* or not the Trainer has a scheduler.
C7_ResumeAsGroup ==
    resume.status # "new" /\ resume.model_loaded =>
        IF Keys \subseteq resume.checkpoint.keys
        THEN /\ optim[0] = resume.checkpoint.optimizer
             /\ has_sched => lr_scheduler[0] = resume.checkpoint.lr_scheduler
             /\ resume.start_epoch = resume.checkpoint.epoch + 1
        ELSE /\ optim[0] = 0
             /\ lr_scheduler[0] = (IF has_sched THEN resume.start_epoch0 ELSE -1)
             /\ resume.start_epoch = resume.start_epoch0

\* the step of the primary process that ends a training call
TrainEndStep(p) ==
    /\ pc[p] = "train"
    /\ pc'[p] = "trained"
    /\ IsPrimary(p)

\* C8: after the batch loop the value written for every enabled term is the
\* mean of its per-batch values over the epoch, and the overall value is
\* the mean of the per-batch total losses.
C8_EpochAverages ==
    [][\A p \in world :
         TrainEndStep(p) =>
           /\ \A n \in DOMAIN fwd[p].losses_logging :
                \E x \in sink' :
                   /\ x.tag = <<"TrainLosses", n>>
                   /\ x.num * NumBatches = locals[p].sums[n] * x.den
           /\ \E x \in sink' :
                 /\ x.tag = <<"TrainLosses", "overall">>
                 /\ x.num * NumBatches = locals[p].train_loss * x.den]_vars

\* C9: the step that ends a training call on the primary process saves
\* exactly one latest checkpoint with the task prefix, and a periodic one
\* with the epoch as prefix iff epoch mod checkpoint_interval = 0; what is
\* saved holds the optimizer after all steps of the epoch and the scheduler
\* before it is advanced.
C9_TrainingCheckpoints ==
    [][\A p \in world :
         TrainEndStep(p) =>
           LET new == disk' \ disk
               e == epoch[p]
           IN  /\ Cardinality({f \in new : f.by = "latest"}) = 1
               /\ \A f \in new :
                    /\ f.by \in {"latest", "periodic"}
                    /\ f.by = "latest" => f.path = CheckpointPath(<<>>, e)
                    /\ f.by = "periodic" => f.path = CheckpointPath(<<e>>, e)
                    /\ f.bundle.epoch = e
                    /\ f.bundle.optimizer = train_calls[p] * NumBatches
                    /\ f.bundle.optimizer = optim'[p]
                    /\ f.bundle.lr_scheduler = lr_scheduler[p]
               /\ (\E f \in new : f.by = "periodic")
                     <=> (e % checkpoint_interval = 0)
               /\ has_sched => lr_scheduler'[p] = lr_scheduler[p] + 1]_vars

\* C9 witness: two training calls have ended, epoch 0 has its periodic
\* checkpoint and epoch 1 only its latest one
C9_Witness ==
    /\ pc[0] = "trained"
    /\ has_sched
    /\ train_calls[0] = 2
    /\ Exists(disk, CheckpointPath(<<0>>, 0))
    /\ Exists(disk, CheckpointPath(<<>>, 1))
    /\ ~Exists(disk, CheckpointPath(<<1>>, 1))

\* a validation call promotes a new best score while the file that
\* best_checkpoint_path names is already gone from disk
PromotionOfLostFile(p) ==
    /\ ValEndStep(p)
    /\ PsnrWritten(sink') > best_psnr[p]
    /\ best_checkpoint_path[p] # NoPath
    /\ ~Exists(disk, best_checkpoint_path[p])

\* C10 as stated: such a call fails at the deletion, saves no new best
\* checkpoint and leaves best_checkpoint_path as it was.
C10_DeletionUnguarded ==
    [][\A p \in world :
         PromotionOfLostFile(p) =>
           /\ pc'[p] = "failed"
           /\ best_checkpoint_path'[p] = best_checkpoint_path[p]
           /\ disk' = disk]_vars

\* C10 amended: the deletion is guarded by os.path.exists, so such a call
\* skips it, saves the new best checkpoint and records its path.
C10_DeletionGuarded ==
    [][\A p \in world :
         PromotionOfLostFile(p) =>
           /\ pc'[p] = "validated"
           /\ best_psnr'[p] = PsnrWritten(sink')
           /\ best_checkpoint_path'[p] =
                CheckpointPath(<<epoch[p], Fmt3(best_psnr'[p])>>, epoch[p])
           /\ BestFiles' = {f \in disk' : f.path = best_checkpoint_path'[p]}
           /\ Cardinality(BestFiles') = 1]_vars

\* C10 witness: a promotion has found its previous best file gone and the
\* new best file is on disk
C10_Witness ==
    /\ seen.lost
    /\ pc[0] = "validated"
    /\ Exists(disk, best_checkpoint_path[0])


\* the steps at which training has written scalars that are in the sink
TrainSteps(s) == {x.step : x \in {y \in s : y.tag[1] \in {"TrainLosses", "TrainStates"}}}

\* C11: when training is called for successive epochs, batch i of epoch e
\* gets global step e * N + i, that step is greater than the step of every
\* batch processed before, and training writes every scalar at a step that
\* is not smaller than any step it wrote at before.
C11_GlobalStepMonotonic ==
    [][\A p \in world :
         /\ pc[p] = "train" /\ bi'[p] = bi[p] + 1
              => /\ locals'[p].global_step = epoch[p] * NumBatches + bi[p]
                 /\ locals'[p].global_step > locals[p].global_step
                 /\ \A t \in TrainSteps(sink) : locals'[p].global_step > t
         /\ pc[p] = "train" /\ IsPrimary(p)
              => \A x \in sink' \ sink :
                   /\ x.tag[1] \in {"TrainLosses", "TrainStates"}
                   /\ \A t \in TrainSteps(sink) : x.step >= t]_vars

\* C11 witness: three successive epochs have been trained and the last
\* scalars are at the step of the last batch of the last epoch
C11_Witness ==
    /\ run.successive
    /\ pc[0] = "trained"
    /\ train_calls[0] = MaxTrainCalls + 1
    /\ epoch[0] >= 2
    /\ TrainSteps(sink) = {epoch[0] * NumBatches + NumBatches - 1}

====
